---- MODULE Spec2Model ----
(***************************************************************************)
(* A model of rich/pretty.py: pretty_repr, its nested functions            *)
(* to_repr_text, traverse and append_text, and the _Line buffer.           *)
(*                                                                         *)
(* Python objects live in a heap: a sequence of nodes, the index of a node *)
(* being its identity id(node).  Text is a TLA+ string, a line is a record *)
(* with the two fields of _Line.  One action is one step of traverse that  *)
(* ends in a call of append_text (the only place that can raise), the      *)
(* except-handler of the retry loop, or the final join.                    *)
(***************************************************************************)
EXTENDS Integers, Sequences, FiniteSets, TLC

\* ------------------------------------------------------------------ bounds

\* max_width is None or drawn from 0..MaxWidth.
MaxWidth == 17
\* indent_size is drawn from 1..MaxIndent.
MaxIndent == 4
\* A cap on expand_level, so that a loop that never ends is a finite graph.
MaxExpand == 20

\* ------------------------------------------------------------------ values

\* Optional[int]: None or Some(n).
None == <<>>
Some(n) == <<n>>

\* The outcome of Python's repr(node): a string, or an exception with a message.
Ok(t) == [ok |-> TRUE, text |-> t]
Err(m) == [ok |-> FALSE, text |-> m]

\* cells.cell_len: the display width of a string (one cell per character).
cell_len(text) == Len(text)

\* str.endswith(" ")
EndsWithSpace(text) ==
  /\ Len(text) > 0
  /\ SubSeq(text, Len(text), Len(text)) = " "

\* " " * n
RECURSIVE Spaces(_)
Spaces(n) == IF n <= 0 THEN "" ELSE " " \o Spaces(n - 1)

\* "".join(parts) and sep.join(parts)
RECURSIVE JoinFrom(_, _, _)
JoinFrom(parts, sep, k) ==
  IF k > Len(parts) THEN ""
  ELSE IF k = Len(parts) THEN parts[k]
  ELSE parts[k] \o sep \o JoinFrom(parts, sep, k + 1)
Join(parts, sep) == JoinFrom(parts, sep, 1)

\* ------------------------------------------------------------------ _BRACES

ContainerTypes == {"dict", "frozenset", "list", "set", "tuple"}

Braces(type) ==
  CASE type = "dict" -> [open |-> "{", close |-> "}", empty |-> "{}"]
    [] type = "frozenset" -> [open |-> "frozenset({", close |-> "})", empty |-> "frozenset()"]
    [] type = "list" -> [open |-> "[", close |-> "]", empty |-> "[]"]
    [] type = "set" -> [open |-> "{", close |-> "}", empty |-> "set()"]
    [] type = "tuple" -> [open |-> "(", close |-> ")", empty |-> "tuple()"]

\* comma without its space.
commaNoSpace == ","

comma == ", "
colon == ": "

\* ------------------------------------------------------------------ _Line

\* _Line(): no parts, _cell_len 0.
NewLine == [parts |-> <<>>, _cell_len |-> 0]

\* _Line.append
LineAppend(line, text) ==
  [parts |-> Append(line.parts, text),
   _cell_len |-> line._cell_len + cell_len(text)]

\* _Line.cell_len (the property): the counter, less one unless the line has a
\* last part that does not end with a space.
LineCellLen(line) ==
  IF line.parts # <<>> /\ ~EndsWithSpace(line.parts[Len(line.parts)])
  THEN line._cell_len
  ELSE line._cell_len - 1

\* _Line.text
LineText(line) == Join(line.parts, "")

\* ------------------------------------------------------------------ objects

\* A node of the heap.  items: the ids of the entries of a container, in
\* stored order (the values of a dict); keys: the ids of the keys of a dict;
\* reprs: the outcomes repr(node) can have (several for an object whose
\* __repr__ varies from call to call).
Leaf(t) == [type |-> "other", items |-> <<>>, keys |-> <<>>, reprs |-> {Ok(t)}]
Broken(m) == [type |-> "other", items |-> <<>>, keys |-> <<>>, reprs |-> {Err(m)}]
Varying(ts) == [type |-> "other", items |-> <<>>, keys |-> <<>>, reprs |-> {Ok(t) : t \in ts}]
Container(type, items) == [type |-> type, items |-> items, keys |-> <<>>, reprs |-> {}]
Dict(keys, items) == [type |-> "dict", items |-> items, keys |-> keys, reprs |-> {}]
KeyTuple(items, t) == [type |-> "tuple", items |-> items, keys |-> <<>>, reprs |-> {Ok(t)}]

\* L = [1]; L.append(L)
SelfAppended == << Container("list", <<2, 1>>), Leaf("1") >>

\* {"a": 1, "b": 2}
TwoKeys == << Dict(<<2, 3>>, <<4, 5>>), Leaf("'a'"), Leaf("'b'"), Leaf("1"), Leaf("2") >>

\* The objects pretty_repr is called with: each a heap whose node 1 is _object.
Objects == <<
  \* 1
  << Leaf("1") >>,
  \* [{}, set(), tuple(), frozenset(), []]
  << Container("list", <<2, 3, 4, 5, 6>>), Dict(<<>>, <<>>), Container("set", <<>>),
     Container("tuple", <<>>), Container("frozenset", <<>>), Container("list", <<>>) >>,
  \* [1, 2, 3]
  << Container("list", <<2, 3, 4>>), Leaf("1"), Leaf("2"), Leaf("3") >>,
  TwoKeys,
  SelfAppended,
  \* d = {"x": [d]}: d contains itself transitively
  << Dict(<<2>>, <<3>>), Leaf("'x'"), Container("list", <<1>>) >>,
  \* s = [1]; [s, s]: a node referenced twice, not its own ancestor
  << Container("list", <<2, 2>>), Container("list", <<3>>), Leaf("1") >>,
  \* [1, BrokenRepr()]; repr raises ZeroDivisionError
  << Container("list", <<2, 3>>), Leaf("1"), Broken("division by zero") >>,
  \* {BrokenRepr(): 1}
  << Dict(<<2>>, <<3>>), Broken("division by zero"), Leaf("1") >>,
  \* [v, v, [v]] where repr(v) is "a" or "bbb", varying from call to call
  << Container("list", <<2, 2, 3>>), Varying({"a", "bbb"}), Container("list", <<2>>) >>,
  \* [[[x, y, z]], [ccccc, dddd]]
  << Container("list", <<2, 7>>), Container("list", <<3>>), Container("list", <<4, 5, 6>>),
     Leaf("x"), Leaf("y"), Leaf("z"), Container("list", <<8, 9>>), Leaf("ccccc"), Leaf("dddd") >>,
  \* [aaaaaa, [[1]]]
  << Container("list", <<2, 3>>), Leaf("aaaaaa"), Container("list", <<4>>),
     Container("list", <<5>>), Leaf("1") >>,
  \* (1, {2}, frozenset({3}))
  << Container("tuple", <<2, 3, 5>>), Leaf("1"), Container("set", <<4>>), Leaf("2"),
     Container("frozenset", <<6>>), Leaf("3") >>,
  \* {(1, 2): [3]}: a key that is a container is formatted by repr, not traversed
  << Dict(<<2>>, <<5>>), KeyTuple(<<3, 4>>, "(1, 2)"), Leaf("1"), Leaf("2"),
     Container("list", <<6>>), Leaf("3") >>,
  \* {"a": {"b": {"c": 1}}}
  << Dict(<<2>>, <<3>>), Leaf("'a'"), Dict(<<4>>, <<5>>), Leaf("'b'"),
     Dict(<<6>>, <<7>>), Leaf("'c'"), Leaf("1") >>
>>

\* ------------------------------------------------------------------ state

VARIABLES
  heap,          \* the objects reachable from _object; id(node) is the index
  max_width,     \* None or Some(n)
  indent_size,
  expand_level,
  lines,         \* List[_Line]
  visited_set,   \* Set[int]
  repr_cache,    \* Dict[int, str]
  line_break,    \* Optional[int]
  stack,         \* the active calls of traverse on non-empty containers
  pc,            \* "loop", "traverse", "raised", "returned", "done"
  max_line,      \* the MaxLineReached in flight: None or Some(line_no)
  text,          \* the returned text, once pc = "done"
  repr_calls,    \* history: how many times repr(node) was evaluated
  repr_seen      \* history: the strings to_repr_text(node) has returned

vars == << heap, max_width, indent_size, expand_level, lines, visited_set,
           repr_cache, line_break, stack, pc, max_line, text, repr_calls,
           repr_seen >>

object == 1
Ids == DOMAIN heap

\* pretty_repr, up to the retry loop
Init ==
  /\ \E k \in 1..Len(Objects) : heap = Objects[k]
  /\ max_width \in {None} \cup {Some(w) : w \in 0..MaxWidth}
  /\ indent_size \in 1..MaxIndent
  /\ expand_level = 0
  /\ lines = << NewLine >>
  /\ visited_set = {}
  /\ repr_cache = << >>
  /\ line_break = None
  /\ stack = << >>
  /\ pc = "loop"
  /\ max_line = None
  /\ text = ""
  /\ repr_calls = [n \in DOMAIN heap |-> 0]
  /\ repr_seen = [n \in DOMAIN heap |-> {}]

indent == Spaces(indent_size)

\* indent * k
Indent(k) == Spaces(indent_size * k)

IsContainer(node) == heap[node].type \in ContainerTypes

\* ------------------------------------------------------------------ to_repr_text

\* ReprText with the message of the exception left out of the placeholder.
ReprTextNoMessage(r) == IF r.ok THEN r.text ELSE "<error in repr>"

\* The string of one outcome of repr(node): the repr, or the placeholder of
\* the except branch.
ReprText(r) == IF r.ok THEN r.text ELSE "<error in repr: " \o r.text \o ">"

Cached(node) == node \in DOMAIN repr_cache

\* to_repr_text(node), r being the outcome of repr(node) should it be called.
to_repr_text(node, r) == IF Cached(node) THEN repr_cache[node] ELSE ReprText(r)

\* The effect of to_repr_text(node) on repr_cache and on the history.
ReprEffect(node, r) ==
  /\ repr_cache' = IF Cached(node) THEN repr_cache
                   ELSE repr_cache @@ (node :> ReprText(r))
  /\ repr_calls' = IF Cached(node) THEN repr_calls
                   ELSE [repr_calls EXCEPT ![node] = @ + 1]
  /\ repr_seen' = [repr_seen EXCEPT ![node] = @ \cup {to_repr_text(node, r)}]

NoRepr == UNCHANGED << repr_cache, repr_calls, repr_seen >>

\* ------------------------------------------------------------------ append_text

\* OverWidth with a max_width of None taken for 0.
OverWidthNoneIsZero(line) ==
  LineCellLen(line) > (IF max_width = None THEN 0 ELSE max_width[1])

\* OverWidth with a line of exactly max_width taken to be over it.
OverWidthAtLimit(line) == max_width # None /\ LineCellLen(line) >= max_width[1]

\* Whether the line is over max_width.
OverWidth(line) == max_width # None /\ LineCellLen(line) > max_width[1]

\* Tolerated with no overflow ever let through.
ToleratedNever(ls) == FALSE

\* Tolerated with the line count of the last abort itself not let through.
ToleratedBelow(ls) == line_break # None /\ Len(ls) < line_break[1]

\* Tolerated with one line more than the line count of the last abort let
\* through.
ToleratedOneMore(ls) == line_break # None /\ Len(ls) <= line_break[1] + 1

\* Whether an over-width append is let through: an overflow at or before the
\* line count of the last abort is ignored.
Tolerated(ls) == line_break # None /\ Len(ls) <= line_break[1]

\* append_text(text) on the lines ls: the lines after it, line_break after it,
\* and whether it raises MaxLineReached.
append_text(ls, txt) ==
  LET line == LineAppend(ls[Len(ls)], txt)
      after == [ls EXCEPT ![Len(ls)] = line]
  IN  IF OverWidth(line) /\ ~Tolerated(after)
      THEN [lines |-> after, line_break |-> Some(Len(after)), raised |-> TRUE]
      ELSE [lines |-> after, line_break |-> line_break, raised |-> FALSE]

\* ------------------------------------------------------------------ traverse

Top == stack[Len(stack)]
Rest == SubSeq(stack, 1, Len(stack) - 1)

\* Expanded with the level equal to expand_level expanded too.
ExpandedInclusive(level, E) == level <= E

\* expanded = level < expand_level
Expanded(level, E) == level < E

\* loop_last: whether entry i of node is not the last one.
NotLast(node, i) == i < Len(heap[node].items)

\* Where the loop body starts for an entry of node at level.
EntryPc(node, level) ==
  IF Expanded(level, expand_level) THEN "indent"
  ELSE IF heap[node].type = "dict" THEN "key"
  ELSE "value"

\* The frame after traverse(value, level + 1) has returned: "if not last" the
\* comma, else out of the loop.
AfterValue(f) ==
  IF NotLast(f.node, f.i) THEN [f EXCEPT !.pc = "comma"]
  ELSE [f EXCEPT !.pc = "close"]

\* The stack once the call on top of stk's caller has returned.
Return(stk) ==
  IF stk = << >> THEN << >>
  ELSE [stk EXCEPT ![Len(stk)] = AfterValue(stk[Len(stk)])]

\* One call of append_text(txt) by the traverse call at level: on a new line
\* if newline; stk and vis are the stack and visited_set if it does not raise,
\* visRaise is visited_set if it does.
Emit(txt, level, newline, stk, vis, visRaise) ==
  LET r == append_text(IF newline THEN Append(lines, NewLine) ELSE lines, txt)
  IN  /\ lines' = r.lines
      /\ line_break' = r.line_break
      /\ IF r.raised
         THEN /\ pc' = "raised"
              /\ max_line' = Some(level)
              /\ stack' = << >>
              /\ visited_set' = visRaise
         ELSE /\ pc' = IF stk = << >> THEN "returned" ELSE "traverse"
              /\ max_line' = None
              /\ stack' = stk
              /\ visited_set' = vis

\* A call traverse(node, level) is about to be made: by the retry loop on
\* _object, or by the frame on top on its current value.
Calling == pc = "loop" \/ (pc = "traverse" /\ Top.pc = "value")
Callee == IF pc = "loop" THEN object ELSE heap[Top.node].items[Top.i]
CalleeLevel == IF pc = "loop" THEN 0 ELSE Top.level + 1

Frame == << heap, max_width, indent_size, expand_level, text >>

\* Recursion with the ellipsis put in the brackets of the container.
RecursionBracketed ==
  /\ Calling
  /\ Callee \in visited_set
  /\ Emit(Braces(heap[Callee].type).open \o "..." \o Braces(heap[Callee].type).close,
          CalleeLevel, FALSE, Return(stack), visited_set, visited_set)
  /\ NoRepr
  /\ UNCHANGED Frame

\* traverse: node_id in visited_set
Recursion ==
  /\ Calling
  /\ Callee \in visited_set
  /\ Emit("...", CalleeLevel, FALSE, Return(stack), visited_set, visited_set)
  /\ NoRepr
  /\ UNCHANGED Frame

\* traverse on a node that is no container
TraverseLeaf ==
  /\ Calling
  /\ Callee \notin visited_set
  /\ ~IsContainer(Callee)
  /\ \E r \in heap[Callee].reprs :
       /\ ReprEffect(Callee, r)
       /\ Emit(to_repr_text(Callee, r), CalleeLevel, FALSE, Return(stack),
               visited_set, visited_set \cup {Callee})
  /\ UNCHANGED Frame

\* traverse on an empty container
TraverseEmpty ==
  /\ Calling
  /\ Callee \notin visited_set
  /\ IsContainer(Callee)
  /\ heap[Callee].items = << >>
  /\ Emit(Braces(heap[Callee].type).empty, CalleeLevel, FALSE, Return(stack),
          visited_set, visited_set \cup {Callee})
  /\ NoRepr
  /\ UNCHANGED Frame

\* traverse on a non-empty container, up to its loop
TraverseOpen ==
  /\ Calling
  /\ Callee \notin visited_set
  /\ IsContainer(Callee)
  /\ heap[Callee].items # << >>
  /\ Emit(Braces(heap[Callee].type).open, CalleeLevel, FALSE,
          Append(stack, [node |-> Callee, level |-> CalleeLevel, i |-> 1,
                         pc |-> EntryPc(Callee, CalleeLevel)]),
          visited_set \cup {Callee}, visited_set \cup {Callee})
  /\ NoRepr
  /\ UNCHANGED Frame

\* if expanded: append_line(_Line()); append_text(indent * (level + 1))
EntryIndent ==
  /\ pc = "traverse"
  /\ Top.pc = "indent"
  /\ Emit(Indent(Top.level + 1), Top.level, TRUE,
          Append(Rest, [Top EXCEPT !.pc = IF heap[Top.node].type = "dict"
                                           THEN "key" ELSE "value"]),
          visited_set, visited_set)
  /\ NoRepr
  /\ UNCHANGED Frame

\* append_text(to_repr_text(key))
EntryKey ==
  /\ pc = "traverse"
  /\ Top.pc = "key"
  /\ LET key == heap[Top.node].keys[Top.i]
     IN  \E r \in heap[key].reprs :
           /\ ReprEffect(key, r)
           /\ Emit(to_repr_text(key, r), Top.level, FALSE,
                   Append(Rest, [Top EXCEPT !.pc = "colon"]),
                   visited_set, visited_set)
  /\ UNCHANGED Frame

\* append_text(colon)
EntryColon ==
  /\ pc = "traverse"
  /\ Top.pc = "colon"
  /\ Emit(colon, Top.level, FALSE, Append(Rest, [Top EXCEPT !.pc = "value"]),
          visited_set, visited_set)
  /\ NoRepr
  /\ UNCHANGED Frame

\* if not last: append_text(comma), and on to the next entry
EntryComma ==
  /\ pc = "traverse"
  /\ Top.pc = "comma"
  /\ Emit(comma, Top.level, FALSE,
          Append(Rest, [Top EXCEPT !.i = @ + 1,
                                   !.pc = EntryPc(Top.node, Top.level)]),
          visited_set, visited_set)
  /\ NoRepr
  /\ UNCHANGED Frame

\* CloseText with the brace left out of the expanded closing fragment.
CloseTextNoBrace(node, level, E) ==
  IF Expanded(level, E) THEN Indent(level) ELSE Braces(heap[node].type).close

\* The closing fragment: on a line of its own, indented, if expanded.
CloseText(node, level, E) ==
  IF Expanded(level, E)
  THEN Indent(level) \o Braces(heap[node].type).close
  ELSE Braces(heap[node].type).close

\* TraverseClose without visited_set.remove(node_id).
TraverseCloseKeepsVisited ==
  /\ pc = "traverse"
  /\ Top.pc = "close"
  /\ Emit(CloseText(Top.node, Top.level, expand_level), Top.level,
          Expanded(Top.level, expand_level),
          Return(Rest), visited_set, visited_set)
  /\ NoRepr
  /\ UNCHANGED Frame

\* The closing brace; visited_set.remove(node_id); return
TraverseClose ==
  /\ pc = "traverse"
  /\ Top.pc = "close"
  /\ Emit(CloseText(Top.node, Top.level, expand_level), Top.level,
          Expanded(Top.level, expand_level),
          Return(Rest), visited_set \ {Top.node}, visited_set)
  /\ NoRepr
  /\ UNCHANGED Frame

\* ------------------------------------------------------------------ pretty_repr

\* Retry with repr_cache cleared along with visited_set.
RetryClearsCache ==
  /\ pc = "raised"
  /\ expand_level < MaxExpand
  /\ lines' = << NewLine >>
  /\ visited_set' = {}
  /\ expand_level' = expand_level + 1
  /\ pc' = "loop"
  /\ max_line' = None
  /\ repr_cache' = << >>
  /\ UNCHANGED << heap, max_width, indent_size, line_break, stack, text,
                  repr_calls, repr_seen >>

\* Retry without del lines[:]: the new line is added to the old ones.
RetryKeepsLines ==
  /\ pc = "raised"
  /\ expand_level < MaxExpand
  /\ lines' = Append(lines, NewLine)
  /\ visited_set' = {}
  /\ expand_level' = expand_level + 1
  /\ pc' = "loop"
  /\ max_line' = None
  /\ NoRepr
  /\ UNCHANGED << heap, max_width, indent_size, line_break, stack, text >>

\* Retry without visited_set.clear().
RetryKeepsVisited ==
  /\ pc = "raised"
  /\ expand_level < MaxExpand
  /\ lines' = << NewLine >>
  /\ expand_level' = expand_level + 1
  /\ pc' = "loop"
  /\ max_line' = None
  /\ NoRepr
  /\ UNCHANGED << heap, max_width, indent_size, line_break, stack, text,
                  visited_set >>

\* except MaxLineReached: start over, one level further expanded
Retry ==
  /\ pc = "raised"
  /\ expand_level < MaxExpand
  /\ lines' = << NewLine >>
  /\ visited_set' = {}
  /\ expand_level' = expand_level + 1
  /\ pc' = "loop"
  /\ max_line' = None
  /\ NoRepr
  /\ UNCHANGED << heap, max_width, indent_size, line_break, stack, text >>

\* "\n".join(line.text for line in lines)
DocumentText(ls) == Join([k \in 1..Len(ls) |-> LineText(ls[k])], "\n")

\* else: break, and the text is returned
Finish ==
  /\ pc = "returned"
  /\ text' = DocumentText(lines)
  /\ pc' = "done"
  /\ NoRepr
  /\ UNCHANGED << heap, max_width, indent_size, expand_level, lines,
                  visited_set, line_break, stack, max_line >>

Next ==
  \/ Recursion
  \/ TraverseLeaf
  \/ TraverseEmpty
  \/ TraverseOpen
  \/ EntryIndent
  \/ EntryKey
  \/ EntryColon
  \/ EntryComma
  \/ TraverseClose
  \/ Retry
  \/ Finish

Spec == Init /\ [][Next]_vars

\* The interpreter runs the call to its end: a step that can be taken is taken.
FairSpec == Spec /\ WF_vars(Next)

\* ------------------------------------------------------------------ one attempt, whole

\* The text to_repr_text has stored for node (any outcome before it is stored).
LeafText(node) ==
  IF Cached(node) THEN repr_cache[node]
  ELSE ReprText(CHOOSE r \in heap[node].reprs : TRUE)

\* lines[-1].append(txt)
Put(ls, txt) == [ls EXCEPT ![Len(ls)] = LineAppend(@, txt)]

\* traverse(node, level) run to its end with expand_level = E and no append
\* raising: the lines it leaves, from the lines ls and the visited set vis.
RECURSIVE Layout(_, _, _, _, _)
RECURSIVE LayoutEntries(_, _, _, _, _, _)
Layout(node, level, E, vis, ls) ==
  IF node \in vis THEN Put(ls, "...")
  ELSE IF ~IsContainer(node) THEN Put(ls, LeafText(node))
  ELSE IF heap[node].items = << >> THEN Put(ls, Braces(heap[node].type).empty)
  ELSE LET opened == Put(ls, Braces(heap[node].type).open)
           body == LayoutEntries(node, 1, level, E, vis \cup {node}, opened)
       IN  Put(IF Expanded(level, E) THEN Append(body, NewLine) ELSE body,
               CloseText(node, level, E))

\* The loop of traverse over the entries of node, from entry i on.
LayoutEntries(node, i, level, E, vis, ls) ==
  IF i > Len(heap[node].items) THEN ls
  ELSE LET a == IF Expanded(level, E)
                THEN Put(Append(ls, NewLine), Indent(level + 1))
                ELSE ls
           b == IF heap[node].type = "dict"
                THEN Put(Put(a, LeafText(heap[node].keys[i])), colon)
                ELSE a
           c == Layout(heap[node].items[i], level + 1, E, vis, b)
           d == IF NotLast(node, i) THEN Put(c, comma) ELSE c
       IN  LayoutEntries(node, i + 1, level, E, vis, d)

\* The lines of a complete traverse(_object) at expansion level E.
FixedLayout(E) == Layout(object, 0, E, {}, << NewLine >>)

\* ------------------------------------------------------------------ the tree

Max(S) == CHOOSE m \in S : \A n \in S : n <= m

Range(seq) == {seq[k] : k \in 1..Len(seq)}

\* The nesting depth below node: 0 for a leaf, an empty container and a node
\* met again on the path; one more than its deepest entry otherwise.
RECURSIVE Depth(_, _)
Depth(node, vis) ==
  IF node \in vis \/ ~IsContainer(node) \/ heap[node].items = << >> THEN 0
  ELSE 1 + Max({Depth(c, vis \cup {node}) : c \in Range(heap[node].items)})

\* The maximum nesting depth D of the tree under _object.
D == Depth(object, {})

\* Whether a node under node is its own ancestor.
RECURSIVE Cyclic(_, _)
Cyclic(node, vis) ==
  \/ node \in vis
  \/ \E c \in Range(heap[node].items) : Cyclic(c, vis \cup {node})

\* Whether every line of ls is within max_width.
Fits(ls) ==
  max_width # None => \A k \in 1..Len(ls) : LineCellLen(ls[k]) <= max_width[1]

\* ------------------------------------------------------------------ sanity

TypeOK ==
  /\ pc \in {"loop", "traverse", "raised", "returned", "done"}
  /\ expand_level \in 0..MaxExpand
  /\ Len(lines) >= 1

\* The returned lines are those of a whole traversal at the final level.
DoneIsLayout == pc = "done" => lines = FixedLayout(expand_level)

\* The cap on expand_level is never what stops the retry loop.
CapUnused == expand_level < MaxExpand - 1

\* ------------------------------------------------------------------ claims

\* Whether some expansion level in 0..D gives a layout with every line within
\* max_width.
SomeLevelFits == \E L \in 0..D : Fits(FixedLayout(L))

\* C1: if a traversal at some fixed expansion level L in 0..D leaves every
\* line within max_width, every line of the returned Document is within
\* max_width.
C1_FitsWhenALevelFits ==
  (pc = "done" /\ max_width # None /\ SomeLevelFits) => Fits(lines)

\* C2: the retry loop makes at most D + 1 attempts: expand_level never
\* exceeds the maximum nesting depth D of the tree.
C2_LevelAtMostDepth == expand_level <= D

\* C3: the retry loop reaches an attempt that completes, for every object
\* (self-referential ones included) and every max_width: pretty_repr returns
\* and no MaxLineReached is left in flight; the handler of the retry loop is
\* never kept from running by the cap on expand_level.
C3_Returns ==
  /\ <>(pc = "done" /\ max_line = None)
  /\ [](expand_level < MaxExpand)

\* C3 witness: a self-referential object has been returned after aborted
\* attempts, under a max_width smaller than its widest leaf.
C3_Witness ==
  /\ pc = "done"
  /\ Cyclic(object, {})
  /\ max_width = Some(0)
  /\ expand_level > 0

\* C4: when no expansion level in 0..D fits, the returned Document is the
\* attempt at the deepest expansion level, every non-empty container expanded.
C4_DeepestWhenNothingFits ==
  (pc = "done" /\ max_width # None /\ ~SomeLevelFits) => lines = FixedLayout(D)

\* The inline rendering of node: the opening token, the entries (key, ": " and
\* value for a dict) separated by ", ", and the closing token; "..." for a
\* node met again on the path.
RECURSIVE Inline(_, _)
Inline(node, vis) ==
  IF node \in vis THEN "..."
  ELSE IF ~IsContainer(node) THEN LeafText(node)
  ELSE IF heap[node].items = << >> THEN Braces(heap[node].type).empty
  ELSE Braces(heap[node].type).open
       \o Join([i \in 1..Len(heap[node].items) |->
                  (IF heap[node].type = "dict"
                   THEN LeafText(heap[node].keys[i]) \o ": " ELSE "")
                  \o Inline(heap[node].items[i], vis \cup {node})], ", ")
       \o Braces(heap[node].type).close

\* C5: with max_width None there is exactly one attempt (expand_level stays 0,
\* MaxLineReached is never raised) and the Document is the one line of the
\* inline rendering.
C5_NoWidthIsInline ==
  max_width = None =>
    /\ expand_level = 0
    /\ pc # "raised"
    /\ line_break = None
    /\ pc = "done" => /\ Len(lines) = 1
                      /\ text = Inline(object, {})
                      /\ LineText(lines[1]) = text

\* C5 witness: a nested container has been returned with max_width None.
C5_Witness ==
  /\ pc = "done"
  /\ max_width = None
  /\ D >= 3
  /\ Len(lines[1].parts) > 5

\* The identities on the active recursion path.
PathNodes == {stack[k].node : k \in 1..Len(stack)}

\* The step appends the one fragment "..." to the current line.
AppendsEllipsis ==
  /\ Len(lines') = Len(lines)
  /\ lines'[Len(lines)].parts = Append(lines[Len(lines)].parts, "...")

\* C6: a traverse call appends the ellipsis exactly when the node it enters
\* is already on the active recursion path, and then does not recurse into
\* it; no identity is twice on the path, so an attempt is finite.
C6_EllipsisExactlyOnPath ==
  /\ [][Calling => (Callee \in PathNodes <=> AppendsEllipsis)]_vars
  /\ [][(Calling /\ Callee \in PathNodes) => Len(stack') <= Len(stack)]_vars
  /\ [](\A j, k \in 1..Len(stack) : stack[j].node = stack[k].node => j = k)

\* C6 witness: a structure that contains itself has been rendered, expanded,
\* with the ellipsis in it.
C6_Witness ==
  /\ pc = "done"
  /\ Cyclic(object, {})
  /\ expand_level > 0
  /\ \E k \in 1..Len(lines) : "..." \in Range(lines[k].parts)

\* C7 as stated: L = [1]; L.append(L) renders as "[1, [...]]" when the inline
\* form fits.
C7_BracketedEllipsis ==
  (heap = SelfAppended /\ pc = "done"
     /\ (max_width = None \/ max_width[1] >= 10)) => text = "[1, [...]]"

\* C7, amended: L = [1]; L.append(L) renders as "[1, ...]" when the inline
\* form fits: the self-reference is the bare ellipsis.
C7_BareEllipsis ==
  (heap = SelfAppended /\ pc = "done"
     /\ (max_width = None \/ max_width[1] >= 8)) =>
    (text = "[1, ...]" /\ expand_level = 0)

\* C7 witness: the list has been returned under a budget its inline form
\* just fits.
C7_Witness == heap = SelfAppended /\ pc = "done" /\ max_width = Some(8)

\* The nodes whose repr raises.
BrokenNodes == {n \in Ids : \E r \in heap[n].reprs : ~r.ok}

\* The placeholder for a node whose repr raises: the message of the exception
\* after "<error in repr: ", closed by ">".
Placeholder(n) ==
  "<error in repr: " \o (CHOOSE r \in heap[n].reprs : ~r.ok).text \o ">"

\* C8: a failing repr is not propagated: to_repr_text returns the placeholder
\* with the message, the placeholder stands where the leaf (or key) stands,
\* and the Document is the one of a leaf whose repr is the placeholder.
C8_FailureIsPlaceholder ==
  \A n \in BrokenNodes :
    /\ Placeholder(n) = "<error in repr: division by zero>"
    /\ repr_seen[n] \subseteq {Placeholder(n)}
    /\ Cached(n) => repr_cache[n] = Placeholder(n)
    /\ pc = "done" =>
         /\ Cached(n)
         /\ lines = FixedLayout(expand_level)
         /\ \E k \in 1..Len(lines) : repr_cache[n] \in Range(lines[k].parts)
         /\ expand_level = 0 => text = Inline(object, {})

\* C8 witness: an object with a failing leaf has been returned, expanded.
C8_Witness == pc = "done" /\ BrokenNodes # {} /\ expand_level > 0

\* C9: within one call repr(node) is evaluated at most once per identity, and
\* to_repr_text returns the stored string ever after: across all attempts a
\* node has one rendering only.
C9_ReprOnce ==
  \A n \in Ids :
    /\ repr_calls[n] <= 1
    /\ repr_calls[n] = 1 <=> Cached(n)
    /\ Cardinality(repr_seen[n]) <= 1
    /\ Cached(n) => repr_seen[n] = {repr_cache[n]}

\* C9 witness: a leaf whose repr varies has been rendered in several attempts.
C9_Witness ==
  /\ pc = "done"
  /\ expand_level >= 2
  /\ \E n \in Ids : Cardinality(heap[n].reprs) > 1 /\ Cached(n)

\* The fragments of all lines, in order.
RECURSIVE FlatFrom(_, _)
FlatFrom(ls, k) == IF k > Len(ls) THEN << >> ELSE ls[k].parts \o FlatFrom(ls, k + 1)
Flat(ls) == FlatFrom(ls, 1)

IsBlank(s) == s = Spaces(Len(s))

\* The fragments that are not whitespace only.
NonBlank(ls) == SelectSeq(Flat(ls), LAMBDA p : ~IsBlank(p))

\* s without its leading spaces.
RECURSIVE LStrip(_)
LStrip(s) == IF Len(s) > 0 /\ SubSeq(s, 1, 1) = " " THEN LStrip(Tail(s)) ELSE s

\* The fragments less their leading spaces, the empty ones dropped.
Tokens(ls) ==
  LET f == Flat(ls)
  IN  SelectSeq([k \in 1..Len(f) |-> LStrip(f[k])], LAMBDA p : p # "")

Acyclic == ~Cyclic(object, {})

\* C10 as stated: for an acyclic tree the sequence of non-whitespace fragments
\* of a complete traversal is the same at any two expansion levels.
C10_SameFragments ==
  (pc = "done" /\ Acyclic) =>
    \A L \in 0..D : NonBlank(FixedLayout(L)) = NonBlank(FixedLayout(0))

\* C10, amended: for an acyclic tree the sequence of fragments of a complete
\* traversal, each less its leading spaces (the closing token of an expanded
\* container is one fragment with its indentation) and the empty ones dropped,
\* is the same at any two expansion levels, and reads as the inline rendering:
\* entries in stored order.
C10_SameTokens ==
  (pc = "done" /\ Acyclic) =>
    /\ \A L \in 0..D :
         /\ Tokens(FixedLayout(L)) = Tokens(FixedLayout(0))
         /\ Join(Tokens(FixedLayout(L)), "") = Inline(object, {})
    /\ Tokens(lines) = Tokens(FixedLayout(0))

\* C10 witness: an acyclic tree has been returned with a nested container
\* expanded.
C10_Witness == pc = "done" /\ Acyclic /\ D >= 2 /\ expand_level >= 2

\* The texts of the lines of the Document.
LineTexts == [k \in 1..Len(lines) |-> LineText(lines[k])]

\* C11 as stated: {"a": 1, "b": 2} with max_width 5 and indent_size 4 is
\* returned as four lines, each entry line ending with a comma, the last
\* included, and no trailing space.
C11_TrailingCommas ==
  (heap = TwoKeys /\ pc = "done" /\ max_width = Some(5) /\ indent_size = 4) =>
    LineTexts = << "{", "    'a': 1,", "    'b': 2,", "}" >>

\* C11, amended: the four lines are "{", "    'a': 1, ", "    'b': 2" and
\* "}": the line of an entry that is not the last ends with the separator
\* ", ", its space included, and the line of the last entry has no comma.
C11_SeparatorNotAfterLast ==
  (heap = TwoKeys /\ pc = "done" /\ max_width = Some(5) /\ indent_size = 4) =>
    /\ LineTexts = << "{", "    'a': 1, ", "    'b': 2", "}" >>
    /\ text = "{\n    'a': 1, \n    'b': 2\n}"

\* C11 witness: the mapping has been returned under max_width 5, indent 4.
C11_Witness ==
  heap = TwoKeys /\ pc = "done" /\ max_width = Some(5) /\ indent_size = 4

\* The step is a call of append_text: every step of an attempt is one.
Appending == pc \in {"loop", "traverse"}

\* The line appended to by the step.
CurrentLine == lines'[Len(lines')]

\* C12: with max_width set, an append_text that leaves the current line over
\* max_width aborts the attempt at that append, MaxLineReached carrying the
\* level of the appending call, and nothing more is appended in the attempt.
C12_OverflowAborts ==
  [][(Appending /\ OverWidth(CurrentLine)) =>
       (pc' = "raised" /\ max_line' # None /\ stack' = << >>)]_vars

\* C13: at every entry to traverse visited_set is the set of the identities
\* on the active recursion path; it is empty when an attempt starts and when
\* one has completed; a node is added before its entries are visited and
\* removed right after, the ellipsis branch changing nothing; so a node
\* referenced twice without being its own ancestor is rendered in full.
C13_VisitedIsPath ==
  /\ [](Calling => visited_set = PathNodes)
  /\ [](pc \in {"loop", "returned", "done"} => visited_set = {})
  /\ [](pc = "traverse" => visited_set = PathNodes)
  /\ [][(Calling /\ Callee \in visited_set /\ pc' # "raised") =>
          visited_set' = visited_set]_vars
  /\ [][(Calling /\ pc' = "traverse" /\ Len(stack') > Len(stack)) =>
          visited_set' = visited_set \cup {Callee}]_vars
  /\ [][(pc = "traverse" /\ Top.pc = "close" /\ pc' # "raised") =>
          visited_set' = visited_set \ {Top.node}]_vars
  /\ []((pc = "done" /\ Acyclic) =>
          \A k \in 1..Len(lines) : "..." \notin Range(lines[k].parts))

\* C13 witness: a node referenced twice, not its own ancestor, is entered the
\* second time in an attempt after an abort, its first rendering complete.
C13_Witness ==
  /\ Calling
  /\ pc = "traverse"
  /\ Top.i = 2
  /\ heap[Top.node].items = << Callee, Callee >>
  /\ IsContainer(Callee)
  /\ expand_level > 0

\* C14: an aborted attempt is followed by exactly this: the Document becomes
\* one empty line, visited_set becomes empty, expand_level grows by 1 and
\* repr_cache is left as it is; expand_level starts at 0 and changes in no
\* other step.
C14_RetryTransition ==
  /\ expand_level = 0
  /\ [][pc = "raised" =>
          /\ lines' = << NewLine >>
          /\ visited_set' = {}
          /\ expand_level' = expand_level + 1
          /\ repr_cache' = repr_cache
          /\ pc' = "loop"]_vars
  /\ [][pc # "raised" => expand_level' = expand_level]_vars
  /\ [][\A n \in DOMAIN repr_cache :
          n \in DOMAIN repr_cache' /\ repr_cache'[n] = repr_cache[n]]_vars

\* C14 witness: an attempt starts anew after an abort that left several lines
\* and a filled cache behind.
C14_Witness ==
  /\ pc = "loop"
  /\ expand_level >= 2
  /\ line_break # None
  /\ line_break[1] >= 3
  /\ DOMAIN repr_cache # {}

\* The sum of the display widths of the parts.
RECURSIVE WidthSum(_)
WidthSum(parts) ==
  IF parts = << >> THEN 0 ELSE cell_len(Head(parts)) + WidthSum(Tail(parts))

\* C15: for every line, a freshly created one included, _cell_len is the sum
\* of the display widths of its fragments and the effective width is that sum
\* less 1 if the text of the line ends with a space, that sum otherwise; the
\* effective width is never negative.
C15_LineWidths ==
  \A k \in 1..Len(lines) :
    /\ lines[k]._cell_len = WidthSum(lines[k].parts)
    /\ LineCellLen(lines[k]) =
         IF EndsWithSpace(LineText(lines[k]))
         THEN WidthSum(lines[k].parts) - 1
         ELSE WidthSum(lines[k].parts)
    /\ LineCellLen(lines[k]) >= 0

\* The text the claim gives a node at depth d under expansion level E: a
\* non-empty container with d < E has each entry on a line of its own after
\* (d + 1) * indent_size spaces, ", " after every entry but the last, and its
\* closing token on a line of its own after d * indent_size spaces; with
\* d >= E it is inline, and so is all it holds.
RECURSIVE Expected(_, _, _, _)
Expected(node, d, E, vis) ==
  IF node \in vis THEN "..."
  ELSE IF ~IsContainer(node) THEN LeafText(node)
  ELSE IF heap[node].items = << >> THEN Braces(heap[node].type).empty
  ELSE LET n == Len(heap[node].items)
           entry(i) ==
             (IF heap[node].type = "dict"
              THEN LeafText(heap[node].keys[i]) \o ": " ELSE "")
             \o Expected(heap[node].items[i], d + 1, E, vis \cup {node})
       IN  IF d < E
           THEN Braces(heap[node].type).open
                \o Join([i \in 1..n |->
                           "\n" \o Spaces((d + 1) * indent_size) \o entry(i)
                           \o (IF i < n THEN ", " ELSE "")], "")
                \o "\n" \o Spaces(d * indent_size)
                \o Braces(heap[node].type).close
           ELSE Braces(heap[node].type).open
                \o Join([i \in 1..n |-> entry(i)], ", ")
                \o Braces(heap[node].type).close

\* C16: in a completed attempt at expansion level E a non-empty container at
\* depth d is expanded if and only if d < E: every entry starts a new line
\* whose first fragment is (d + 1) * indent_size spaces, ", " follows every
\* entry but the last, the closing token is on a new line after
\* d * indent_size spaces; a container at depth d >= E adds no line.
C16_ExpandedBelowLevel ==
  /\ [](pc = "done" => text = Expected(object, 0, expand_level, {}))
  /\ [][(pc = "traverse" /\ Top.pc = "indent") =>
          /\ Top.level < expand_level
          /\ Len(lines') = Len(lines) + 1
          /\ CurrentLine.parts = << Spaces((Top.level + 1) * indent_size) >>]_vars
  /\ [][(pc = "traverse" /\ Top.pc \in {"key", "colon", "comma"}) =>
          Len(lines') = Len(lines)]_vars
  /\ [][(pc = "traverse" /\ Top.pc = "close") =>
          Len(lines') = Len(lines) + (IF Top.level < expand_level THEN 1 ELSE 0)]_vars

\* C16 witness: a completed attempt with containers expanded above the level
\* and a non-empty container inline below it.
C16_Witness ==
  /\ pc = "done"
  /\ expand_level >= 1
  /\ expand_level < D
  /\ Len(lines) >= 4

\* The number of attempts aborted so far.
Aborts == expand_level + (IF pc = "raised" THEN 1 ELSE 0)

\* C17: line_break is None until the first abort and is never reset; an
\* over-width append raises only if line_break is None or the number of lines
\* is greater than line_break, and is otherwise kept, the attempt going on;
\* every abort sets line_break to the number of lines, so line_break grows
\* strictly from one abort to the next.
C17_Hysteresis ==
  /\ [](line_break = None <=> Aborts = 0)
  /\ [][line_break # None =>
          (line_break' # None /\ line_break'[1] >= line_break[1])]_vars
  /\ [][(Appending /\ pc' = "raised") =>
          /\ OverWidth(CurrentLine)
          /\ line_break = None \/ Len(lines') > line_break[1]
          /\ line_break' = Some(Len(lines'))
          /\ line_break # None => line_break'[1] > line_break[1]]_vars
  /\ [][(Appending /\ OverWidth(CurrentLine) /\ line_break # None
           /\ Len(lines') <= line_break[1]) =>
          (pc' # "raised" /\ line_break' = line_break)]_vars
  /\ [][(Appending /\ OverWidth(CurrentLine)
           /\ (line_break = None \/ Len(lines') > line_break[1])) =>
          pc' = "raised"]_vars
  /\ [][~Appending => line_break' = line_break]_vars

\* C17 witness: an over-width append is being kept, on a line whose number is
\* the line count of the last abort, several aborts on.
C17_Witness ==
  /\ pc = "traverse"
  /\ expand_level >= 2
  /\ line_break = Some(Len(lines))
  /\ Len(lines) >= 3
  /\ OverWidth(lines[Len(lines)])

\* C18: with max_width set, every line of the returned Document that is over
\* max_width has a 1-based index no greater than the final line_break; if no
\* attempt was aborted no line is over max_width.
C18_OverflowBeforeLineBreak ==
  (pc = "done" /\ max_width # None) =>
    \A k \in 1..Len(lines) :
      OverWidth(lines[k]) => (line_break # None /\ k <= line_break[1])

\* C18 witness: a Document has been returned with a line over max_width, that
\* line being the one numbered line_break.
C18_Witness ==
  /\ pc = "done"
  /\ line_break # None
  /\ line_break[1] >= 2
  /\ line_break[1] <= Len(lines)
  /\ OverWidth(lines[line_break[1]])

\* C19: the retry loop does not expand past a level that fits: if the whole
\* traversal at a fixed level L leaves no line over max_width, pretty_repr
\* returns at an expand_level of at most L; when the inline rendering fits,
\* the result is the one inline line of the first attempt.
C19_NotPastFittingLevel ==
  pc = "done" =>
    /\ \A L \in 0..D : Fits(FixedLayout(L)) => expand_level <= L
    /\ Fits(FixedLayout(0)) =>
         /\ expand_level = 0
         /\ line_break = None
         /\ Len(lines) = 1
         /\ text = Inline(object, {})

\* C19 witness: an object has been returned at level 1 under a max_width
\* that its layout at level 1 fits and its inline rendering does not.
C19_Witness ==
  /\ pc = "done"
  /\ max_width # None
  /\ D >= 2
  /\ expand_level = 1
  /\ Fits(FixedLayout(1))
  /\ ~Fits(FixedLayout(0))

====
